---- MODULE Spec2Model ----
(***************************************************************************)
(* Weekly shift scheduling (streamlit.py).  main() collects the number of  *)
(* workers, the number of shifts per day and one checkbox per (worker,     *)
(* day, shift); run_schedule() builds a CP-SAT model (one boolean per      *)
(* triple, coverage, exclusivity and fairness constraints, a linear        *)
(* objective), hands it to the solver, reads the solution back into a      *)
(* dict of dicts and turns that into the returned table.                   *)
(*                                                                         *)
(* The solver is an external library.  It is modelled by its contract: it  *)
(* answers with a status and, when it has one, an assignment that          *)
(* satisfies every constraint the code added.  The constraints are data    *)
(* (records in model.constraints) and the engine interprets them; nothing  *)
(* in the engine knows what the code meant them to say.                    *)
(***************************************************************************)
EXTENDS Integers, Sequences, FiniteSets, TLC

\* ---- bounds of the exploration ----
MaxWorkers == 2
MaxShifts == 2
MaxRequests == 2
MaxCells == 4
MaxRequestsLimited == 1

\* ---- program constants ----
num_days == 7
daily == <<"Mon", "Tue", "Wed", "Thu", "Fri", "Sat", "Sun">>

VARIABLES
    total_workers,   \* sidebar input, >= 1
    num_shifts,      \* sidebar input, >= 1
    shift_requests,  \* [<<n, d, s>> -> BOOLEAN], the checkboxes
    pc,              \* position in main()/run_schedule()
    model,           \* the CpModel being built
    min_shifts_per_worker, \* fairness band, lower end
    max_shifts_per_worker, \* fairness band, upper end
    status,          \* what solver.Solve returned
    solution,        \* the variables whose solver.Value is 1
    objective_value, \* solver.ObjectiveValue()
    df,              \* the dict of dicts filled by the extraction loop
    xxx              \* the returned DataFrame

vars == <<total_workers, num_shifts, shift_requests, pc, model,
          min_shifts_per_worker, max_shifts_per_worker,
          status, solution, objective_value, df, xxx>>

\* ---- index ranges (range(num_workers), range(num_days), range(num_shifts)) ----
all_workers(nw) == 0 .. (nw - 1)
all_days == 0 .. (num_days - 1)
all_shifts(ns) == 0 .. (ns - 1)

Triples(nw, ns) == { <<n, d, s>> : n \in all_workers(nw), d \in all_days, s \in all_shifts(ns) }

RECURSIVE SubsetsUpTo(_, _)
SubsetsUpTo(S, k) ==
    IF k = 0 THEN { {} }
    ELSE LET prev == SubsetsUpTo(S, k - 1)
         IN  prev \cup { R \cup {x} : R \in prev, x \in S }

\* ---- model construction ----
EmptyModel == [vars |-> {}, constraints |-> {}, objective |-> << >>]

\* shifts[(n, d, s)] = model.NewBoolVar(...)
ShiftVars(nw, ns) == Triples(nw, ns)

\* a coverage loop that stops one day short
CoverageConstraintsShortWeek(nw, ns) ==
    { [kind |-> "ExactlyOne", lits |-> { <<n, d, s>> : n \in all_workers(nw) }, bound |-> 1]
        : d \in 0 .. (num_days - 2), s \in all_shifts(ns) }

\* AddAtMostOne where AddExactlyOne was meant
CoverageConstraintsAtMostOne(nw, ns) ==
    { [kind |-> "AtMostOne", lits |-> { <<n, d, s>> : n \in all_workers(nw) }, bound |-> 1]
        : d \in all_days, s \in all_shifts(ns) }

\* model.AddExactlyOne(shifts[(n, d, s)] for n in all_workers), for d, for s
CoverageConstraints(nw, ns) ==
    { [kind |-> "ExactlyOne", lits |-> { <<n, d, s>> : n \in all_workers(nw) }, bound |-> 1]
        : d \in all_days, s \in all_shifts(ns) }

\* the exclusivity loop left out
ExclusivityConstraintsDropped(nw, ns) == {}

\* model.AddAtMostOne(shifts[(n, d, s)] for s in all_shifts), for n, for d
ExclusivityConstraints(nw, ns) ==
    { [kind |-> "AtMostOne", lits |-> { <<n, d, s>> : s \in all_shifts(ns) }, bound |-> 1]
        : n \in all_workers(nw), d \in all_days }

\* rounding up where the code rounds down
MinShiftsPerWorkerCeil(nw, ns) == (ns * num_days + nw - 1) \div nw

MinShiftsPerWorker(nw, ns) == (ns * num_days) \div nw

\* the remainder test left out
MaxShiftsPerWorkerNoRemainder(nw, ns) == MinShiftsPerWorker(nw, ns)

MaxShiftsPerWorker(nw, ns) ==
    IF (ns * num_days) % nw = 0
    THEN MinShiftsPerWorker(nw, ns)
    ELSE MinShiftsPerWorker(nw, ns) + 1

\* num_shifts_worked: the sum of the worker's variables over the week
WorkerLits(n, ns) == { <<n, d, s>> : d \in all_days, s \in all_shifts(ns) }

\* the two model.Add calls left out
FairnessConstraintsDropped(nw, ns, lo, hi) == {}

\* model.Add(min <= num_shifts_worked); model.Add(num_shifts_worked <= max)
FairnessConstraints(nw, ns, lo, hi) ==
    UNION { { [kind |-> "LinearGE", lits |-> WorkerLits(n, ns), bound |-> lo],
              [kind |-> "LinearLE", lits |-> WorkerLits(n, ns), bound |-> hi] }
            : n \in all_workers(nw) }

\* Python bool used as a number: True is 1, False is 0
BoolToInt(b) == IF b THEN 1 ELSE 0

\* the request factor left out of the sum
ObjectiveCoefficientAlwaysOne(requests, v) == BoolToInt(TRUE)

\* a score that rewards the assignments nobody asked for
ObjectiveCoefficientInverted(requests, v) == 1 - BoolToInt(requests[v])

\* the coefficient of shifts[(n, d, s)] in the maximised sum
ObjectiveCoefficient(requests, v) == BoolToInt(requests[v]) * 1

Objective(nw, ns, requests) ==
    [v \in ShiftVars(nw, ns) |-> ObjectiveCoefficient(requests, v)]

\* ---- the solving engine (cp_model.CpSolver) ----
\* what a constraint of the model says of a complete assignment (the set of
\* variables that are true)
ConstraintHolds(c, a) ==
    LET k == Cardinality(c.lits \cap a)
    IN  CASE c.kind = "ExactlyOne" -> k = 1
          [] c.kind = "AtMostOne"  -> k <= 1
          [] c.kind = "LinearGE"   -> c.bound <= k
          [] c.kind = "LinearLE"   -> k <= c.bound

\* a partial assignment (T true, D decided) that no completion can repair
ConstraintDead(c, T, D) ==
    LET k    == Cardinality(c.lits \cap T)
        open == Cardinality(c.lits \ D)
    IN  CASE c.kind = "ExactlyOne" -> k > 1 \/ (k = 0 /\ open = 0)
          [] c.kind = "AtMostOne"  -> k > 1
          [] c.kind = "LinearGE"   -> k + open < c.bound
          [] c.kind = "LinearLE"   -> k > c.bound

\* the branching order of the search: by day, then shift, then worker
VarBefore(v, w) ==
    \/ v[2] < w[2]
    \/ v[2] = w[2] /\ v[3] < w[3]
    \/ v[2] = w[2] /\ v[3] = w[3] /\ v[1] < w[1]

RECURSIVE SortVars(_)
SortVars(S) ==
    IF S = {} THEN << >>
    ELSE LET v == CHOOSE x \in S : \A y \in S \ {x} : VarBefore(x, y)
         IN  <<v>> \o SortVars(S \ {v})

\* exhaustive search: decide the variables one by one, cut a branch as soon
\* as one of the constraints on the decided variable is dead
RECURSIVE Search(_, _, _, _, _)
Search(m, order, i, T, D) ==
    IF i > Len(order)
    THEN IF \A c \in m.constraints : ConstraintHolds(c, T) THEN {T} ELSE {}
    ELSE LET v    == order[i]
             cs   == { c \in m.constraints : v \in c.lits }
             D2   == D \cup {v}
             T1   == T \cup {v}
             yes  == IF \E c \in cs : ConstraintDead(c, T1, D2) THEN {}
                     ELSE Search(m, order, i + 1, T1, D2)
             no   == IF \E c \in cs : ConstraintDead(c, T, D2) THEN {}
                     ELSE Search(m, order, i + 1, T, D2)
         IN  yes \cup no

\* every assignment that satisfies all the given constraints
Enumerate(vs, cs) == Search([vars |-> vs, constraints |-> cs], SortVars(vs), 1, {}, {})

\* the constraints run_schedule adds for nw workers and ns shifts per day
ConstraintsOf(nw, ns) ==
    CoverageConstraints(nw, ns) \cup ExclusivityConstraints(nw, ns)
    \cup FairnessConstraints(nw, ns, MinShiftsPerWorker(nw, ns), MaxShiftsPerWorker(nw, ns))

\* the inputs explored
InputSpace ==
    { <<nw, ns>> \in (1 .. MaxWorkers) \X (1 .. MaxShifts) : nw * ns <= MaxCells }

\* the search results for the constraint systems the inputs lead to, computed
\* once; Solutions looks a model up here and searches when it is not listed
SolutionTable ==
    { [vars        |-> ShiftVars(in[1], in[2]),
       constraints |-> ConstraintsOf(in[1], in[2]),
       solutions   |-> Enumerate(ShiftVars(in[1], in[2]), ConstraintsOf(in[1], in[2]))]
        : in \in InputSpace }

Solutions(m) ==
    IF \E e \in SolutionTable : e.vars = m.vars /\ e.constraints = m.constraints
    THEN (CHOOSE e \in SolutionTable : e.vars = m.vars /\ e.constraints = m.constraints).solutions
    ELSE Enumerate(m.vars, m.constraints)

RECURSIVE SumCoefficients(_, _)
SumCoefficients(f, S) ==
    IF S = {} THEN 0
    ELSE LET v == CHOOSE x \in S : TRUE
         IN  f[v] + SumCoefficients(f, S \ {v})

\* the variables with a non-zero coefficient in the objective
Support(m) == { v \in DOMAIN m.objective : m.objective[v] # 0 }

Maximum(S) == CHOOSE x \in S : \A y \in S : y <= x

\* the assignments paired with their objective values
Scored(m, sols, support) ==
    { <<a, SumCoefficients(m.objective, a \cap support)>> : a \in sols }

BestOf(scored) == Maximum({ p[2] : p \in scored })

\* the largest objective value over the solutions of the model (none: -1)
BestObjective(m) ==
    LET sols == Solutions(m)
    IN  IF sols = {} THEN -1 ELSE BestOf(Scored(m, sols, Support(m)))

WithValue(scored, best) == { p \in scored : p[2] = best }

\* the answers of a search run to completion: <<status, assignment, value>>
CompleteAnswers(m) ==
    LET sols == Solutions(m)
    IN  IF sols = {} THEN { <<"INFEASIBLE", {}, 0>> }
        ELSE LET scored == Scored(m, sols, Support(m))
             IN  { <<"OPTIMAL", p[1], p[2]>> : p \in WithValue(scored, BestOf(scored)) }

\* the answers of a search cut short by a limit: nothing known, or a solution
\* that is not proven best
LimitedAnswers(m) ==
    { <<"UNKNOWN", {}, 0>> }
    \cup { <<"FEASIBLE", p[1], p[2]>> : p \in Scored(m, Solutions(m), Support(m)) }

\* ---- extraction (the loop over d, n, s under status == OPTIMAL) ----
Digit(k) == CASE k = 0 -> "0" [] k = 1 -> "1" [] k = 2 -> "2" [] k = 3 -> "3"
              [] k = 4 -> "4" [] k = 5 -> "5" [] k = 6 -> "6" [] k = 7 -> "7"
              [] k = 8 -> "8" [] k = 9 -> "9"

\* str(k) for k >= 0
RECURSIVE str(_)
str(k) == IF k < 10 THEN Digit(k) ELSE str(k \div 10) \o Digit(k % 10)

\* "Worker " + str(n+1)
WorkerLabel(n) == "Worker " \o str(n + 1)

\* ---- Python dicts: the <<key, value>> pairs in insertion order ----
Keys(dict) == { dict[i][1] : i \in DOMAIN dict }

Get(dict, k) == dict[CHOOSE i \in DOMAIN dict : dict[i][1] = k][2]

\* dict[k] = v: a new key goes last, a known key keeps its place
Put(dict, k, v) ==
    IF k \in Keys(dict)
    THEN [i \in DOMAIN dict |-> IF dict[i][1] = k THEN <<k, v>> ELSE dict[i]]
    ELSE Append(dict, <<k, v>>)

\* inner loops that stop one pair short
InnerLoopShort(nw, ns) ==
    [i \in 1 .. (nw * ns - 1) |-> << (i - 1) \div ns, (i - 1) % ns >>]

\* the pairs (n, s) in the order the two inner loops visit them
InnerLoop(nw, ns) ==
    [i \in 1 .. (nw * ns) |-> << (i - 1) \div ns, (i - 1) % ns >>]

\* df[d] after the inner loops over the pairs from position i on, starting from row
RECURSIVE ExtractDay(_, _, _, _, _)
ExtractDay(value, d, loop, i, row) ==
    IF i > Len(loop) THEN row
    ELSE LET n == loop[i][1]
             s == loop[i][2]
         IN  IF <<n, d, s>> \in value
             THEN ExtractDay(value, d, loop, i + 1, Put(row, s, WorkerLabel(n)))
             ELSE ExtractDay(value, d, loop, i + 1, row)

\* df after the loop over the days: df[d] = {} and then the inner loops
ExtractAll(value, nw, ns) ==
    [k \in 1 .. num_days |-> <<k - 1, ExtractDay(value, k - 1, InnerLoop(nw, ns), 1, << >>)>>]

\* ---- pandas ----
\* A frame is [columns, index, cell]: the column keys in order, the index
\* labels in order, and cell[c][i] the value of column number c at index
\* label i.  A column key is <<"int", k>> or <<"str", name>>.
NaN == "NaN"

RECURSIVE SortedSeq(_)
SortedSeq(S) ==
    IF S = {} THEN << >>
    ELSE LET x == CHOOSE y \in S : \A z \in S : y <= z
         IN  <<x>> \o SortedSeq(S \ {x})

\* the keys of the inner dicts in the order they first appear
RECURSIVE FirstSeen(_, _, _)
FirstSeen(dict, c, acc) ==
    IF c > Len(dict) THEN acc
    ELSE LET inner == dict[c][2]
             fresh == SelectSeq([i \in DOMAIN inner |-> inner[i][1]],
                                LAMBDA k : \A j \in DOMAIN acc : acc[j] # k)
         IN  FirstSeen(dict, c + 1, acc \o fresh)

\* pd.DataFrame(dict of dicts): one column per outer key, the index is the
\* union of the inner keys, a missing cell is NaN
DataFrame(dict) ==
    LET idx == FirstSeen(dict, 1, << >>)
    IN  [columns |-> [c \in DOMAIN dict |-> <<"int", dict[c][1]>>],
         index   |-> idx,
         cell    |-> [c \in DOMAIN dict |->
                        [i \in { idx[j] : j \in DOMAIN idx } |->
                            IF i \in Keys(dict[c][2]) THEN Get(dict[c][2], i) ELSE NaN]]]

\* the sort left out
sort_index_skipped(frame) == frame

\* .sort_index(): the rows by ascending index label
sort_index(frame) ==
    [frame EXCEPT !.index = SortedSeq({ frame.index[j] : j \in DOMAIN frame.index })]

\* .reset_index(): the index labels become the first column, named "index",
\* and the rows are numbered from 0
reset_index(frame) ==
    LET n == Len(frame.index)
    IN  [columns |-> << <<"str", "index">> >> \o frame.columns,
         index   |-> [j \in 1 .. n |-> j - 1],
         cell    |-> << [j \in 0 .. (n - 1) |-> frame.index[j + 1]] >>
                     \o [c \in DOMAIN frame.cell |->
                            [j \in 0 .. (n - 1) |-> frame.cell[c][frame.index[j + 1]]]]]

\* the mapping {0:"Mon", 1:"Tue", ..., 6:"Sun", "index":"Shift"}
RenameKey(key) ==
    IF key[1] = "int"
    THEN IF key[2] \in 0 .. 6 THEN <<"str", daily[key[2] + 1]>> ELSE key
    ELSE IF key[2] = "index" THEN <<"str", "Shift">> ELSE key

\* .rename(columns=...)
rename(frame) ==
    [frame EXCEPT !.columns = [c \in DOMAIN frame.columns |-> RenameKey(frame.columns[c])]]

\* xxx["Shift"] = xxx["Shift"] + 1
ShiftPlusOne(frame) ==
    LET c == CHOOSE k \in DOMAIN frame.columns : frame.columns[k] = <<"str", "Shift">>
    IN  [frame EXCEPT !.cell[c] = [j \in DOMAIN @ |-> @[j] + 1]]

\* lines 147-149 together
FinalTable(dict) == ShiftPlusOne(rename(reset_index(sort_index(DataFrame(dict)))))

\* ---- the program ----
NoTable == [columns |-> << >>, index |-> << >>, cell |-> << >>]

\* the state when 'Run Module' is pressed: the counts from the sidebar, at
\* most k checkboxes ticked
InitWith(k) ==
    /\ \E in \in InputSpace :
         /\ total_workers = in[1]
         /\ num_shifts = in[2]
         /\ \E R \in SubsetsUpTo(Triples(in[1], in[2]), k) :
              shift_requests = [v \in Triples(in[1], in[2]) |-> v \in R]
    /\ pc = "variables"
    /\ model = EmptyModel
    /\ min_shifts_per_worker = 0
    /\ max_shifts_per_worker = 0
    /\ status = "NONE"
    /\ solution = {}
    /\ objective_value = 0
    /\ df = << >>
    /\ xxx = NoTable

Init == InitWith(MaxRequests)

InitLimited == InitWith(MaxRequestsLimited)

CreateVariables ==
    /\ pc = "variables"
    /\ model' = [model EXCEPT !.vars = ShiftVars(total_workers, num_shifts)]
    /\ pc' = "coverage"
    /\ UNCHANGED <<total_workers, num_shifts, shift_requests, min_shifts_per_worker,
                   max_shifts_per_worker, status, solution, objective_value, df, xxx>>

AddCoverage ==
    /\ pc = "coverage"
    /\ model' = [model EXCEPT !.constraints = @ \cup CoverageConstraints(total_workers, num_shifts)]
    /\ pc' = "exclusivity"
    /\ UNCHANGED <<total_workers, num_shifts, shift_requests, min_shifts_per_worker,
                   max_shifts_per_worker, status, solution, objective_value, df, xxx>>

AddExclusivity ==
    /\ pc = "exclusivity"
    /\ model' = [model EXCEPT !.constraints = @ \cup ExclusivityConstraints(total_workers, num_shifts)]
    /\ pc' = "fairness"
    /\ UNCHANGED <<total_workers, num_shifts, shift_requests, min_shifts_per_worker,
                   max_shifts_per_worker, status, solution, objective_value, df, xxx>>

AddFairness ==
    /\ pc = "fairness"
    /\ min_shifts_per_worker' = MinShiftsPerWorker(total_workers, num_shifts)
    /\ max_shifts_per_worker' = MaxShiftsPerWorker(total_workers, num_shifts)
    /\ model' = [model EXCEPT !.constraints =
                    @ \cup FairnessConstraints(total_workers, num_shifts,
                                               min_shifts_per_worker', max_shifts_per_worker')]
    /\ pc' = "objective"
    /\ UNCHANGED <<total_workers, num_shifts, shift_requests, status, solution,
                   objective_value, df, xxx>>

SetObjective ==
    /\ pc = "objective"
    /\ model' = [model EXCEPT !.objective = Objective(total_workers, num_shifts, shift_requests)]
    /\ pc' = "solve"
    /\ UNCHANGED <<total_workers, num_shifts, shift_requests, min_shifts_per_worker,
                   max_shifts_per_worker, status, solution, objective_value, df, xxx>>

\* status = solver.Solve(model), the search run to completion (no limit is set)
Solve ==
    /\ pc = "solve"
    /\ \E r \in CompleteAnswers(model) :
         /\ status' = r[1]
         /\ solution' = r[2]
         /\ objective_value' = r[3]
    /\ pc' = "extract"
    /\ UNCHANGED <<total_workers, num_shifts, shift_requests, model, min_shifts_per_worker,
                   max_shifts_per_worker, df, xxx>>

\* status = solver.Solve(model) when the engine is stopped by a resource limit
SolveLimited ==
    /\ pc = "solve"
    /\ \E r \in LimitedAnswers(model) :
         /\ status' = r[1]
         /\ solution' = r[2]
         /\ objective_value' = r[3]
    /\ pc' = "extract"
    /\ UNCHANGED <<total_workers, num_shifts, shift_requests, model, min_shifts_per_worker,
                   max_shifts_per_worker, df, xxx>>

\* df = {}; if status == cp_model.OPTIMAL: the extraction loops; else: a
\* message; then xxx = pd.DataFrame(df), sorted, re-indexed, renamed; return xxx
Extract ==
    /\ pc = "extract"
    /\ df' = IF status = "OPTIMAL"
             THEN ExtractAll(solution, total_workers, num_shifts)
             ELSE << >>
    /\ xxx' = FinalTable(df')
    /\ pc' = "done"
    /\ UNCHANGED <<total_workers, num_shifts, shift_requests, model, min_shifts_per_worker,
                   max_shifts_per_worker, status, solution, objective_value>>

Next ==
    \/ CreateVariables
    \/ AddCoverage
    \/ AddExclusivity
    \/ AddFairness
    \/ SetObjective
    \/ Solve
    \/ Extract

Spec == Init /\ [][Next]_vars

\* the same program with an engine that may also stop early
NextLimited == Next \/ SolveLimited

SpecLimited == InitLimited /\ [][NextLimited]_vars

\* ======================================================================
\* Properties
\* ======================================================================
\* What the properties are stated in: the indices, the requested cells,
\* the shifts a worker holds.  None of it goes through the operators that
\* build the model.
Workers == 0 .. (total_workers - 1)
Days == 0 .. 6
ShiftSlots == 0 .. (num_shifts - 1)

Requested == { v \in DOMAIN shift_requests : shift_requests[v] }
NoRequests == Requested = {}

WorkersOn(d, s) == { n \in Workers : <<n, d, s>> \in solution }
ShiftsOn(n, d) == { s \in ShiftSlots : <<n, d, s>> \in solution }
ShiftsWorked(n) == Cardinality({ v \in solution : v[1] = n })

TotalSlots == num_shifts * 7
FloorShare == TotalSlots \div total_workers
CeilShare == IF TotalSlots % total_workers = 0 THEN FloorShare ELSE FloorShare + 1

Returned == pc = "done"

\* the returned table
ExpectedColumns ==
    << <<"str", "Shift">>, <<"str", "Mon">>, <<"str", "Tue">>, <<"str", "Wed">>,
       <<"str", "Thu">>, <<"str", "Fri">>, <<"str", "Sat">>, <<"str", "Sun">> >>

ExpectedLabel(n) ==
    CASE n = 0 -> "Worker 1" [] n = 1 -> "Worker 2" [] n = 2 -> "Worker 3"
      [] n = 3 -> "Worker 4" [] n = 4 -> "Worker 5" [] OTHER -> "Worker ?"

Labels == { ExpectedLabel(n) : n \in Workers }

\* the columns of the table that are days
DayColumns == { c \in DOMAIN xxx.columns : xxx.columns[c] # <<"str", "Shift">> }

TableEmpty ==
    /\ Len(xxx.index) = 0
    /\ DayColumns = {}
    /\ \A c \in DOMAIN xxx.cell : DOMAIN xxx.cell[c] = {}

TableComplete ==
    /\ xxx.columns = ExpectedColumns
    /\ Len(xxx.index) = num_shifts
    /\ \A c \in DayColumns : \A j \in 0 .. (num_shifts - 1) : xxx.cell[c][j] \in Labels

\* row s (shown as s + 1), column of day d holds the label of the one worker
\* on (d, s)
TableMatchesSolution ==
    /\ xxx.columns = ExpectedColumns
    /\ Len(xxx.index) = num_shifts
    /\ \A s \in ShiftSlots :
         /\ xxx.cell[1][s] = s + 1
         /\ \A d \in Days :
              \E n \in Workers :
                 /\ WorkersOn(d, s) = {n}
                 /\ xxx.cell[d + 2][s] = ExpectedLabel(n)

\* the assignments that satisfy coverage, exclusivity and fairness, found
\* without the model: one worker per (day, shift) by construction, the other
\* two checked on each
AssignmentOf(f) == { <<f[sl], sl[1], sl[2]>> : sl \in DOMAIN f }

IsExclusive(a, nw) ==
    \A n \in 0 .. (nw - 1) : \A d \in 0 .. 6 : Cardinality({ v \in a : v[1] = n /\ v[2] = d }) <= 1

IsFair(a, nw, ns) ==
    \A n \in 0 .. (nw - 1) :
        LET k  == Cardinality({ v \in a : v[1] = n })
            lo == (ns * 7) \div nw
        IN  lo <= k /\ k <= (IF (ns * 7) % nw = 0 THEN lo ELSE lo + 1)

FairAssignments(nw, ns) ==
    LET all == { AssignmentOf(f) : f \in [(0 .. 6) \X (0 .. (ns - 1)) -> 0 .. (nw - 1)] }
    IN  { a \in all : IsExclusive(a, nw) /\ IsFair(a, nw, ns) }

\* the sets of at most MaxRequests cells that some such assignment contains,
\* per pair of counts, computed once
Satisfiable(nw, ns) ==
    UNION { SubsetsUpTo(a, MaxRequests) : a \in FairAssignments(nw, ns) }

SatisfiableTable ==
    { [nw |-> in[1], ns |-> in[2], sets |-> Satisfiable(in[1], in[2])] : in \in InputSpace }

\* Q is part of an assignment that satisfies coverage, exclusivity and
\* fairness for the counts of this run
JointlySatisfiable(Q) ==
    Q \in (CHOOSE e \in SatisfiableTable : e.nw = total_workers /\ e.ns = num_shifts).sets

\* the model run_schedule builds for the given requests
BuiltModel(nw, ns, requests) ==
    [vars |-> ShiftVars(nw, ns), constraints |-> ConstraintsOf(nw, ns),
     objective |-> Objective(nw, ns, requests)]

\* the requests with cell c cleared
Without(c) == [shift_requests EXCEPT ![c] = FALSE]

\* ---- C1 ----
\* C1 (coverage): in an OPTIMAL result every (day, shift) pair has exactly
\* one worker whose variable is true.
C1_Coverage ==
    (Returned /\ status = "OPTIMAL") =>
        \A d \in Days : \A s \in ShiftSlots : Cardinality(WorkersOn(d, s)) = 1

C1_Witness ==
    /\ Returned /\ status = "OPTIMAL" /\ total_workers = 2 /\ num_shifts = 2
    /\ WorkersOn(0, 0) # WorkersOn(1, 0)

\* ---- C2 ----
\* C2 (exclusivity): in a successful result no worker holds two shifts of
\* the same day.
C2_Exclusivity ==
    (Returned /\ status = "OPTIMAL") =>
        \A n \in Workers : \A d \in Days : Cardinality(ShiftsOn(n, d)) <= 1

C2_Witness ==
    /\ Returned /\ status = "OPTIMAL" /\ num_shifts = 2 /\ total_workers = 2
    /\ ShiftsOn(0, 0) = {1} /\ ShiftsOn(0, 1) = {0}

\* ---- C3 ----
\* C3 (fairness bound): in a successful result every worker's number of
\* shifts over the week lies between floor(7 * shifts / workers) and that
\* number plus one (plus nothing when the division is exact), and these are
\* the bounds the code computed.
C3_FairnessBound ==
    (Returned /\ status = "OPTIMAL") =>
        /\ min_shifts_per_worker = FloorShare
        /\ max_shifts_per_worker = CeilShare
        /\ \A n \in Workers : FloorShare <= ShiftsWorked(n) /\ ShiftsWorked(n) <= CeilShare

C3_Witness ==
    /\ Returned /\ status = "OPTIMAL" /\ total_workers = 2 /\ num_shifts = 1
    /\ ShiftsWorked(0) = 3 /\ ShiftsWorked(1) = 4

\* ---- C4 ----
\* C4 (objective): in an OPTIMAL result objective_value is the number of
\* triples that are both assigned and requested (nothing is subtracted for
\* an assignment nobody requested), and no assignment that satisfies
\* coverage, exclusivity and fairness matches more requests: every set of
\* requested cells that such an assignment contains has at most
\* objective_value members.
C4_Objective ==
    (Returned /\ status = "OPTIMAL") =>
        /\ objective_value = Cardinality(solution \cap Requested)
        /\ \A Q \in SUBSET Requested :
              JointlySatisfiable(Q) => Cardinality(Q) <= objective_value

\* two requests that cannot both be met, one of them met, and an assignment
\* nobody asked for in the result
C4_Witness ==
    /\ Returned /\ status = "OPTIMAL"
    /\ Cardinality(Requested) = 2 /\ objective_value = 1
    /\ solution \ Requested # {}

\* ---- C5 ----
\* C5 as stated: with no request at all, every pair of counts gives OPTIMAL,
\* objective 0 and a fully covered roster.
C5_AsStated ==
    (Returned /\ NoRequests) =>
        /\ status = "OPTIMAL"
        /\ objective_value = 0
        /\ TableComplete

\* C5 as amended: with no request at all, counts with at least as many
\* workers as shifts per day give OPTIMAL, objective 0 and a fully covered
\* roster; with fewer workers than shifts per day the result is INFEASIBLE
\* and the roster is empty.
C5_AllFalse ==
    (Returned /\ NoRequests) =>
        IF total_workers >= num_shifts
        THEN status = "OPTIMAL" /\ objective_value = 0 /\ TableComplete
        ELSE status = "INFEASIBLE" /\ TableEmpty

C5_Witness ==
    /\ Returned /\ NoRequests /\ total_workers = 2 /\ num_shifts = 2
    /\ status = "OPTIMAL" /\ TableComplete

\* ---- C6 ----
\* C6 (no partial roster): the returned table is empty or complete, and it
\* is empty whenever the status is INFEASIBLE or UNKNOWN.
C6_NoPartialRoster ==
    Returned =>
        /\ TableEmpty \/ TableComplete
        /\ status \in {"INFEASIBLE", "UNKNOWN"} => TableEmpty

C6_Witness ==
    /\ Returned /\ status = "UNKNOWN" /\ TableEmpty /\ total_workers = 2 /\ num_shifts = 2

\* ---- C7 ----
\* C7 as stated: when the status is OPTIMAL or FEASIBLE the returned table
\* has, at row shift and column day, the label of the one worker assigned.
C7_AsStated ==
    (Returned /\ status \in {"OPTIMAL", "FEASIBLE"}) => TableMatchesSolution

\* C7 as amended: when the status is OPTIMAL the returned table has, at row
\* shift (numbered from 1, ascending) and column day (Mon to Sun), the label
\* "Worker n+1" of the one worker n assigned; a FEASIBLE status takes the
\* other branch and the table stays empty.
C7_Extraction ==
    Returned =>
        /\ status = "OPTIMAL" => TableMatchesSolution
        /\ status = "FEASIBLE" => TableEmpty

\* worker 1 before worker 0 in the second row of Monday: the dict is filled
\* out of row order
C7_Witness ==
    /\ Returned /\ status = "OPTIMAL" /\ total_workers = 2 /\ num_shifts = 2
    /\ <<0, 0, 1>> \in solution /\ <<1, 0, 0>> \in solution
    /\ xxx.cell[2][0] = "Worker 2" /\ xxx.cell[2][1] = "Worker 1"

\* ---- C8 ----
\* C8 (monotonicity): for the same counts, the best objective value with a
\* cell requested is at least the best with that cell not requested, and
\* the two models have the same solutions.  Checked where the model is
\* built, for each requested cell against the requests without it.
NeverAbove(best) ==
    \A c \in Requested :
        BestObjective(BuiltModel(total_workers, num_shifts, Without(c))) <= best

C8_Monotonic ==
    pc = "solve" =>
        /\ model = BuiltModel(total_workers, num_shifts, shift_requests)
        /\ \A c \in Requested :
             Solutions(BuiltModel(total_workers, num_shifts, Without(c))) = Solutions(model)
        /\ NeverAbove(BestObjective(model))

\* a request that raises the best value
C8_Witness ==
    /\ pc = "solve" /\ total_workers = 2 /\ num_shifts = 2
    /\ \E c \in Requested :
         BestObjective(BuiltModel(total_workers, num_shifts, Without(c))) < BestObjective(model)

====
